---- MODULE Spec2Model ----
(***************************************************************************)
(* Header validation of a Game Boy cartridge image (src/src/rom.rs).       *)
(* The byte buffer `content` is a sequence of u8; offset i of the Rust     *)
(* vector is element i + 1 of the sequence.  Every function of impl Rom    *)
(* is an operator from the buffer to a result, a result being Ok(value),   *)
(* Err(message, arguments) or Panic (Rust's bounds-check failure on an     *)
(* index or a slice).  Rom::new is stepped call by call.                   *)
(***************************************************************************)
EXTENDS Integers, Sequences, FiniteSets, TLC

VARIABLES content, pc, evaluated, ram_size, memory_bank_type, result, called, ret

vars == <<content, pc, evaluated, ram_size, memory_bank_type, result, called, ret>>

(***************************************************************************)
(* Bounds of the explored inputs.                                          *)
(***************************************************************************)
MaxExtra == 1
MaxDelta == 2
MaxRamCode == 6

(***************************************************************************)
(* Constants of rom.rs.                                                    *)
(***************************************************************************)
Byte == 0..255

NINTENDO_LOGO ==
    << 206, 237, 102, 102, 204,  13,   0,  11,   3, 115,   0, 131,   0,  12,   0,  13,
         0,   8,  17,  31, 136, 137,   0,  14, 220, 204, 110, 230, 221, 221, 217, 153,
       187, 187, 103,  99, 110,  14, 236, 204, 221, 220, 153, 159, 187, 185,  51,  62 >>

\* 0x104..0x134, end exclusive
NINTENDO_LOGO_RANGE == [start |-> 260, end |-> 308]

\* 0x147
CARTRIDGE_TYPE_INDEX == 327

\* 0x148
ROM_SIZE_INDEX == 328

\* 0x149
RAM_SIZE_INDEX == 329

KB == 1024

\* 0x14D
HEADER_CHECKSUM_INDEX == 333

\* 0x134..=0x14C, last inclusive
HEADER_CHECKSUM_RANGE == [start |-> 308, last |-> 332]

MemoryBankType == {"ROM", "MBC1", "MBC2", "MMM01", "MBC3", "MBC5", "MBC6", "MBC7"}

(***************************************************************************)
(* Results: std::io::Result<T>, and the panic of an out-of-bounds access.  *)
(***************************************************************************)
Unit == "()"

Ok(v) == [kind |-> "Ok", val |-> v, msg |-> "", args |-> <<>>]

Err(m, a) == [kind |-> "Err", val |-> Unit, msg |-> m, args |-> a]

Panic == [kind |-> "Panic", val |-> Unit, msg |-> "index out of bounds", args |-> <<>>]

NoResult == [kind |-> "None", val |-> Unit, msg |-> "", args |-> <<>>]

(***************************************************************************)
(* Vec<u8> indexing and slicing.                                           *)
(***************************************************************************)
At(c, i) == c[i + 1]

InBounds(c, i) == i < Len(c)

\* c[start..end], end exclusive; defined when end <= Len(c)
Slice(c, start, end) == [k \in 1..(end - start) |-> c[start + k]]

\* Iterator::cmp: lexicographic comparison of two byte sequences
RECURSIVE CmpFrom(_, _, _)
CmpFrom(a, b, i) ==
    IF i > Len(a)
        THEN (IF i > Len(b) THEN "Equal" ELSE "Less")
    ELSE IF i > Len(b) THEN "Greater"
    ELSE IF a[i] < b[i] THEN "Less"
    ELSE IF a[i] > b[i] THEN "Greater"
    ELSE CmpFrom(a, b, i + 1)

IterCmp(a, b) == CmpFrom(a, b, 1)

\* x << n on u32: the bits shifted out are dropped (n < 32; the values that occur
\* stay below 2^31)
Shl32(x, n) == IF n < 2 THEN x * 2^n ELSE (x % 2^(32 - n)) * 2^n

\* Wrapping<u8> subtraction
WrappingSub(a, b) == (a + 256 - b) % 256

\* the fold step without the decrement
ChecksumStep_NoDecrement(acc, v) == WrappingSub(acc, v)

\* the closure of the fold: acc - Wrapping(v) - Wrapping(1)
ChecksumStep(acc, v) == WrappingSub(WrappingSub(acc, v), 1)

\* Iterator::fold from the left, starting at Wrapping(0)
RECURSIVE FoldFrom(_, _, _)
FoldFrom(s, i, acc) ==
    IF i > Len(s) THEN acc ELSE FoldFrom(s, i + 1, ChecksumStep(acc, s[i]))

(***************************************************************************)
(* The functions of impl Rom.                                              *)
(***************************************************************************)
\* the logo range taken one byte short, 0x104..0x133
verify_nintendo_logo_ShortRange(c) ==
    IF NINTENDO_LOGO_RANGE.end - 1 > Len(c) THEN Panic
    ELSE IF IterCmp(Slice(c, NINTENDO_LOGO_RANGE.start, NINTENDO_LOGO_RANGE.end - 1),
                    NINTENDO_LOGO) # "Equal"
        THEN Err("Nintendo logo not found in header.", <<>>)
    ELSE Ok(Unit)

verify_nintendo_logo(c) ==
    IF NINTENDO_LOGO_RANGE.end > Len(c) THEN Panic
    ELSE IF IterCmp(Slice(c, NINTENDO_LOGO_RANGE.start, NINTENDO_LOGO_RANGE.end),
                    NINTENDO_LOGO) # "Equal"
        THEN Err("Nintendo logo not found in header.", <<>>)
    ELSE Ok(Unit)

\* the MBC1 arm extended to 0x04
get_memory_bank_type_Mbc1To4(c) ==
    IF ~InBounds(c, CARTRIDGE_TYPE_INDEX) THEN Panic
    ELSE LET b == At(c, CARTRIDGE_TYPE_INDEX) IN
        CASE b \in {0, 8, 9} -> Ok("ROM")
          [] b \in 1..4      -> Ok("MBC1")
          [] b \in {5, 6}    -> Ok("MBC2")
          [] b \in 11..13    -> Ok("MMM01")
          [] b \in 15..19    -> Ok("MBC3")
          [] b \in 25..30    -> Ok("MBC5")
          [] b = 32          -> Ok("MBC6")
          [] b = 34          -> Ok("MBC7")
          [] OTHER           -> Err("is an invalid value for the cartridge type.", <<b>>)

get_memory_bank_type(c) ==
    IF ~InBounds(c, CARTRIDGE_TYPE_INDEX) THEN Panic
    ELSE LET b == At(c, CARTRIDGE_TYPE_INDEX) IN
        CASE b \in {0, 8, 9} -> Ok("ROM")
          [] b \in 1..3      -> Ok("MBC1")
          [] b \in {5, 6}    -> Ok("MBC2")
          [] b \in 11..13    -> Ok("MMM01")
          [] b \in 15..19    -> Ok("MBC3")
          [] b \in 25..30    -> Ok("MBC5")
          [] b = 32          -> Ok("MBC6")
          [] b = 34          -> Ok("MBC7")
          [] OTHER           -> Err("is an invalid value for the cartridge type.", <<b>>)

\* the guard off by one: byte > 0x09
get_rom_size_Accepts9(c) ==
    IF ~InBounds(c, ROM_SIZE_INDEX) THEN Panic
    ELSE LET byte == At(c, ROM_SIZE_INDEX) IN
        IF byte > 9
            THEN Err("is an invalid value for the ROM size.", <<byte>>)
            ELSE Ok(Shl32(32768, byte))

get_rom_size(c) ==
    IF ~InBounds(c, ROM_SIZE_INDEX) THEN Panic
    ELSE LET byte == At(c, ROM_SIZE_INDEX) IN
        IF byte > 8
            THEN Err("is an invalid value for the ROM size.", <<byte>>)
            ELSE Ok(Shl32(32768, byte))

\* the table made monotonic: 0x04 -> 64 KB, 0x05 -> 128 KB
get_ram_size_Monotonic(c) ==
    IF ~InBounds(c, RAM_SIZE_INDEX) THEN Panic
    ELSE LET b == At(c, RAM_SIZE_INDEX) IN
        CASE b \in {0, 1} -> Ok(0)
          [] b = 2        -> Ok(8 * KB)
          [] b = 3        -> Ok(32 * KB)
          [] b = 4        -> Ok(64 * KB)
          [] b = 5        -> Ok(128 * KB)
          [] OTHER        -> Err("is an invalid value for the RAM size.", <<b>>)

get_ram_size(c) ==
    IF ~InBounds(c, RAM_SIZE_INDEX) THEN Panic
    ELSE LET b == At(c, RAM_SIZE_INDEX) IN
        CASE b \in {0, 1} -> Ok(0)
          [] b = 2        -> Ok(8 * KB)
          [] b = 3        -> Ok(32 * KB)
          [] b = 4        -> Ok(128 * KB)
          [] b = 5        -> Ok(64 * KB)
          [] OTHER        -> Err("is an invalid value for the RAM size.", <<b>>)

\* the rule applied to MBC1 instead of MBC2
Mbc2Rule_OnMbc1(mbt, ram) ==
    IF mbt = "MBC1" /\ ram # 0
        THEN Err("When the memory bank type is MBC2, the ram must be 0 but was", <<ram>>)
        ELSE Ok(Unit)

\* the final expression of verify_memory_bank_matches_ram
Mbc2Rule(mbt, ram) ==
    IF mbt = "MBC2" /\ ram # 0
        THEN Err("When the memory bank type is MBC2, the ram must be 0 but was", <<ram>>)
        ELSE Ok(Unit)

verify_memory_bank_matches_ram(c) ==
    LET ram == get_ram_size(c) IN
    IF ram.kind # "Ok" THEN ram
    ELSE LET mbt == get_memory_bank_type(c) IN
        IF mbt.kind # "Ok" THEN mbt
        ELSE Mbc2Rule(mbt.val, ram.val)

\* the checksum range started one byte early, at 0x133
verify_header_checksum_FromLogoEnd(c) ==
    IF HEADER_CHECKSUM_RANGE.last >= Len(c) THEN Panic
    ELSE LET checksum == FoldFrom(Slice(c, HEADER_CHECKSUM_RANGE.start - 1,
                                        HEADER_CHECKSUM_RANGE.last + 1), 1, 0)
         IN IF ~InBounds(c, HEADER_CHECKSUM_INDEX) THEN Panic
            ELSE IF checksum # At(c, HEADER_CHECKSUM_INDEX)
                THEN Err("The expected checksum, did not match the actual checksum",
                         <<At(c, HEADER_CHECKSUM_INDEX), checksum>>)
            ELSE Ok(Unit)

verify_header_checksum(c) ==
    IF HEADER_CHECKSUM_RANGE.last >= Len(c) THEN Panic
    ELSE LET checksum == FoldFrom(Slice(c, HEADER_CHECKSUM_RANGE.start,
                                        HEADER_CHECKSUM_RANGE.last + 1), 1, 0)
         IN IF ~InBounds(c, HEADER_CHECKSUM_INDEX) THEN Panic
            ELSE IF checksum # At(c, HEADER_CHECKSUM_INDEX)
                THEN Err("The expected checksum, did not match the actual checksum",
                         <<At(c, HEADER_CHECKSUM_INDEX), checksum>>)
            ELSE Ok(Unit)

(***************************************************************************)
(* The cartridge images explored.  A header is laid out field by field:    *)
(* the logo at 0x104..0x133, the 25 bytes of the checksum range at         *)
(* 0x134..0x14C (which hold the type, ROM-size and RAM-size codes), the    *)
(* stored checksum at 0x14D, and one fill value everywhere else.           *)
(***************************************************************************)
ZeroHdr == [k \in 1..25 |-> 0]

\* header_checksum_source of test_verify_header_checksum
SampleHdr ==
    << 80, 79, 75, 69, 77, 79, 78, 32, 66, 76, 85, 69, 0, 0,
       0, 0, 48, 49, 3, 19, 5, 3, 1, 51, 0 >>

HdrWith(h, t, ro, ra) ==
    [h EXCEPT ![CARTRIDGE_TYPE_INDEX - HEADER_CHECKSUM_RANGE.start + 1] = t,
              ![ROM_SIZE_INDEX - HEADER_CHECKSUM_RANGE.start + 1] = ro,
              ![RAM_SIZE_INDEX - HEADER_CHECKSUM_RANGE.start + 1] = ra]

RECURSIVE SumFrom(_, _)
SumFrom(s, i) == IF i > Len(s) THEN 0 ELSE s[i] + SumFrom(s, i + 1)

\* the header checksum in closed form: (-(sum of the bytes) - count) mod 256
ClosedForm(s) == (256 * (Len(s) + 1) - SumFrom(s, 1) - Len(s)) % 256

Bump(s, k, d) == [s EXCEPT ![k] = (s[k] + d) % 256]

ZeroLogo == [k \in 1..48 |-> 0]

LogoVariants ==
    {NINTENDO_LOGO, ZeroLogo}
        \cup {Bump(NINTENDO_LOGO, k, d) : k \in 1..48, d \in 1..MaxDelta}

HdrVariants ==
    {ZeroHdr, SampleHdr} \cup {Bump(SampleHdr, k, d) : k \in 1..25, d \in 1..MaxDelta}

FullLen == HEADER_CHECKSUM_INDEX + 1

Lens ==
    {0, 1, NINTENDO_LOGO_RANGE.start, NINTENDO_LOGO_RANGE.end - 1, NINTENDO_LOGO_RANGE.end,
     CARTRIDGE_TYPE_INDEX, ROM_SIZE_INDEX, RAM_SIZE_INDEX, RAM_SIZE_INDEX + 1,
     HEADER_CHECKSUM_RANGE.last, HEADER_CHECKSUM_INDEX}
        \cup {FullLen + e : e \in 0..MaxExtra}

\* the bytes before the logo, 0x000..0x103
Lead(fill) == [i \in 1..NINTENDO_LOGO_RANGE.start |-> fill]

LeadZero == Lead(0)

\* the bytes after the stored checksum
Trail(fill) == [i \in 1..MaxExtra |-> fill]

Image(len, logo, hdr, stored, fill) ==
    SubSeq((IF fill = 0 THEN LeadZero ELSE Lead(fill))
               \o logo \o hdr \o <<stored>> \o Trail(fill),
           1, len)

\* An image is described by <<length, logo, checksum range, stored checksum, fill>>.
\* every cartridge type with the RAM codes up to MaxRamCode
TypeImages ==
    {<<FullLen, NINTENDO_LOGO, h, ClosedForm(h), 0>> :
        h \in {HdrWith(ZeroHdr, t, 0, ra) : t \in Byte, ra \in 0..MaxRamCode}}

\* every ROM-size code
RomImages ==
    {<<FullLen, NINTENDO_LOGO, h, ClosedForm(h), 0>> :
        h \in {HdrWith(ZeroHdr, 0, ro, 0) : ro \in Byte}}

\* every RAM-size code, under a ROM, an invalid and an MBC2 cartridge type
RamImages ==
    {<<FullLen, NINTENDO_LOGO, h, ClosedForm(h), 0>> :
        h \in {HdrWith(ZeroHdr, t, 0, ra) : t \in {0, 4, 5}, ra \in Byte}}

\* the logo, and the logo with one byte changed, under valid and invalid codes
LogoImages ==
    {<<FullLen, l, h, ClosedForm(h), f>> :
        l \in LogoVariants,
        h \in {HdrWith(ZeroHdr, t, 0, ra) : t \in {0, 4}, ra \in {0, 6}},
        f \in {0, 255}}

\* checksum ranges against stored checksums
SumImages ==
    {<<FullLen, l, h, st, 0>> :
        l \in {NINTENDO_LOGO, ZeroLogo}, h \in {ZeroHdr, SampleHdr}, st \in Byte}
    \cup UNION {{<<FullLen, NINTENDO_LOGO, h, st, 0>> :
                    st \in {0, ClosedForm(h), ClosedForm(SampleHdr)}} :
                h \in HdrVariants}

\* truncated and over-long files
LenImages ==
    {<<n, l, h, ClosedForm(h), 0>> :
        n \in Lens,
        l \in {NINTENDO_LOGO, ZeroLogo},
        h \in {HdrWith(ZeroHdr, 0, 0, 0), HdrWith(ZeroHdr, 4, 9, 6), SampleHdr}}

Images == TypeImages \cup RomImages \cup RamImages \cup LogoImages \cup SumImages \cup LenImages

(***************************************************************************)
(* State machine.  `content` is the file's bytes.  pc, evaluated,          *)
(* ram_size, memory_bank_type and result belong to a run of Rom::new;      *)
(* called and ret record a direct call of one function on Rom { content }, *)
(* as the unit tests make them.                                            *)
(***************************************************************************)
InitOf(images) ==
    /\ \E p \in images : content = Image(p[1], p[2], p[3], p[4], p[5])
    /\ pc = "start"
    /\ evaluated = <<>>
    /\ ram_size = 0
    /\ memory_bank_type = "none"
    /\ result = NoResult
    /\ called = "none"
    /\ ret = NoResult

Init == InitOf(Images)

NewVars == <<pc, evaluated, ram_size, memory_bank_type, result>>

\* a unit test makes one call on a Rom it builds from the bytes
Call(name, r) ==
    /\ pc = "start"
    /\ called = "none"
    /\ called' = name
    /\ ret' = r
    /\ UNCHANGED <<content, NewVars>>

Call_verify_nintendo_logo == Call("verify_nintendo_logo", verify_nintendo_logo(content))

Call_get_memory_bank_type == Call("get_memory_bank_type", get_memory_bank_type(content))

Call_get_rom_size == Call("get_rom_size", get_rom_size(content))

Call_get_ram_size == Call("get_ram_size", get_ram_size(content))

Call_verify_memory_bank_matches_ram ==
    Call("verify_memory_bank_matches_ram", verify_memory_bank_matches_ram(content))

Call_verify_header_checksum == Call("verify_header_checksum", verify_header_checksum(content))

\* `?` on a result: an error returns from Rom::new, a panic unwinds out of it
Abort(r) ==
    /\ result' = r
    /\ pc' = "done"

\* std::fs::read(path)? -- main reaches the private functions through Rom::new only
New_read ==
    /\ pc = "start"
    /\ called = "none"
    /\ \E ok \in BOOLEAN :
        IF ok
            THEN pc' = "verify_nintendo_logo" /\ UNCHANGED result
            ELSE Abort(Err("std::fs::read", <<>>))
    /\ UNCHANGED <<content, evaluated, ram_size, memory_bank_type, called, ret>>

\* rom.verify_nintendo_logo() with its result dropped
New_verify_nintendo_logo_NoReturn ==
    /\ pc = "verify_nintendo_logo"
    /\ evaluated' = Append(evaluated, "verify_nintendo_logo")
    /\ LET r == verify_nintendo_logo(content) IN
        IF r.kind # "Panic"
            THEN pc' = "get_ram_size" /\ UNCHANGED result
            ELSE Abort(r)
    /\ UNCHANGED <<content, ram_size, memory_bank_type, called, ret>>

\* rom.verify_nintendo_logo()?
New_verify_nintendo_logo ==
    /\ pc = "verify_nintendo_logo"
    /\ evaluated' = Append(evaluated, "verify_nintendo_logo")
    /\ LET r == verify_nintendo_logo(content) IN
        IF r.kind = "Ok"
            THEN pc' = "get_ram_size" /\ UNCHANGED result
            ELSE Abort(r)
    /\ UNCHANGED <<content, ram_size, memory_bank_type, called, ret>>

\* let ram_size = self.get_ram_size()?
New_get_ram_size ==
    /\ pc = "get_ram_size"
    /\ evaluated' = Append(evaluated, "get_ram_size")
    /\ LET r == get_ram_size(content) IN
        IF r.kind = "Ok"
            THEN pc' = "get_memory_bank_type" /\ ram_size' = r.val /\ UNCHANGED result
            ELSE Abort(r) /\ UNCHANGED ram_size
    /\ UNCHANGED <<content, memory_bank_type, called, ret>>

\* self.get_memory_bank_type()?
New_get_memory_bank_type ==
    /\ pc = "get_memory_bank_type"
    /\ evaluated' = Append(evaluated, "get_memory_bank_type")
    /\ LET r == get_memory_bank_type(content) IN
        IF r.kind = "Ok"
            THEN pc' = "mbc2_rule" /\ memory_bank_type' = r.val /\ UNCHANGED result
            ELSE Abort(r) /\ UNCHANGED memory_bank_type
    /\ UNCHANGED <<content, ram_size, called, ret>>

\* == MemoryBankType::MBC2 && ram_size != 0, the `?` on it, and Ok(rom)
New_mbc2_rule ==
    /\ pc = "mbc2_rule"
    /\ evaluated' = Append(evaluated, "mbc2_rule")
    /\ LET r == Mbc2Rule(memory_bank_type, ram_size) IN
        IF r.kind = "Ok" THEN Abort(Ok("Rom")) ELSE Abort(r)
    /\ UNCHANGED <<content, ram_size, memory_bank_type, called, ret>>

Next ==
    \/ Call_verify_nintendo_logo
    \/ Call_get_memory_bank_type
    \/ Call_get_rom_size
    \/ Call_get_ram_size
    \/ Call_verify_memory_bank_matches_ram
    \/ Call_verify_header_checksum
    \/ New_read
    \/ New_verify_nintendo_logo
    \/ New_get_ram_size
    \/ New_get_memory_bank_type
    \/ New_mbc2_rule

Spec == Init /\ [][Next]_vars

\* the runs on the images that vary the logo and the length
InitLogo == InitOf(LogoImages \cup LenImages)

SpecLogo == InitLogo /\ [][Next]_vars

\* the runs on the images that vary the checksum range, the stored checksum and the length
InitSum == InitOf(SumImages \cup LogoImages \cup LenImages)

SpecSum == InitSum /\ [][Next]_vars

TypeOK ==
    /\ content \in Seq(Byte)
    /\ pc \in {"start", "verify_nintendo_logo", "get_ram_size", "get_memory_bank_type",
               "mbc2_rule", "done"}
    /\ result.kind \in {"None", "Ok", "Err", "Panic"}
    /\ ret.kind \in {"None", "Ok", "Err", "Panic"}
    /\ memory_bank_type \in MemoryBankType \cup {"none"}

(***************************************************************************)
(* Properties.  Offsets and tables are written out as the specification    *)
(* states them: 0x104 = 260, 0x133 = 307, 0x134 = 308, 0x147 = 327,        *)
(* 0x148 = 328, 0x149 = 329, 0x14C = 332, 0x14D = 333, 0x14E = 334.        *)
(***************************************************************************)
Poke(c, o, d) == [c EXCEPT ![o + 1] = (c[o + 1] + d) % 256]

LogoMatches(c) == \A k \in 0..47 : At(c, 260 + k) = NINTENDO_LOGO[k + 1]

ValidTypeBytes == {0, 8, 9} \cup 1..3 \cup {5, 6} \cup 11..13 \cup 15..19 \cup 25..30 \cup {32, 34}

HeaderValid(c) ==
    /\ verify_nintendo_logo(c).kind = "Ok"
    /\ get_memory_bank_type(c).kind = "Ok"
    /\ get_rom_size(c).kind = "Ok"
    /\ get_ram_size(c).kind = "Ok"
    /\ verify_memory_bank_matches_ram(c).kind = "Ok"
    /\ verify_header_checksum(c).kind = "Ok"

\* C1: Rom::new returns a Rom only if the logo matches, the cartridge-type, ROM-size
\* and RAM-size bytes decode, the MBC2/zero-RAM rule holds and the recomputed header
\* checksum equals the byte at 0x14D.
C1_NewAcceptsOnlyValidHeader ==
    (pc = "done" /\ result.kind = "Ok") => HeaderValid(content)

\* the length below which each check reads out of bounds
Needs ==
    [verify_nintendo_logo   |-> 308,
     get_memory_bank_type   |-> 328,
     get_rom_size           |-> 329,
     get_ram_size           |-> 330,
     verify_header_checksum |-> 334]

\* C2: every check applied to a buffer too short for the offsets it reads ends with
\* the error Truncated, never with a panic.
C2_ShortBufferIsTruncatedError ==
    \A f \in DOMAIN Needs :
        (called = f /\ Len(content) < Needs[f]) =>
            (ret.kind = "Err" /\ ret.msg = "Truncated")

\* C3: on a buffer of at least 0x14E bytes verify_header_checksum succeeds iff the
\* byte at 0x14D equals (-(sum of the 25 bytes at 0x134..0x14C) - 25) mod 256; the
\* documented sample with stored byte 0xD3 verifies, the all-zero buffer (stored 0x00,
\* computed 0xE7) fails.
C3_ChecksumIffFold ==
    (called = "verify_header_checksum" /\ Len(content) >= 334) =>
        LET range  == Slice(content, 308, 333)
            stored == At(content, 333)
        IN  /\ ret.kind \in {"Ok", "Err"}
            /\ (ret.kind = "Ok") <=> (stored = ClosedForm(range))
            /\ (range = SampleHdr /\ stored = 211) => ret.kind = "Ok"
            /\ (range = ZeroHdr /\ stored = 0) => (ret.kind = "Err" /\ ret.args = <<0, 231>>)

C3_Witness ==
    /\ called = "verify_header_checksum"
    /\ Len(content) >= 334
    /\ Slice(content, 308, 333) = SampleHdr
    /\ At(content, 333) = 211
    /\ ret.kind = "Ok"

\* C4 as stated: changing bytes at 0x104..0x133 or at 0x147, 0x148, 0x149 never
\* changes the result of verify_header_checksum.
C4_ChecksumIgnoresLogoTypeAndSizes ==
    called = "verify_header_checksum" =>
        \A o \in 260..307 \cup {327, 328, 329}, d \in 1..MaxDelta :
            o < Len(content) => verify_header_checksum(Poke(content, o, d)) = ret

\* C4 amended: changing bytes at 0x104..0x133 (the logo) never changes the result of
\* verify_header_checksum.
C4_ChecksumIgnoresLogo ==
    called = "verify_header_checksum" =>
        /\ \A o \in 260..307, d \in 1..MaxDelta :
              o < Len(content) => verify_header_checksum(Poke(content, o, d)) = ret
        /\ Len(content) >= 308 =>
              verify_header_checksum(
                  [i \in 1..Len(content) |->
                      IF i - 1 \in 260..307 THEN 255 - content[i] ELSE content[i]]) = ret

C4_Witness ==
    /\ called = "verify_header_checksum"
    /\ Len(content) >= 334
    /\ ret.kind = "Ok"
    /\ ~LogoMatches(content)

\* C5: get_memory_bank_type maps the byte at 0x147 to ROM for 0x00, 0x08, 0x09; MBC1
\* for 0x01-0x03; MBC2 for 0x05, 0x06; MMM01 for 0x0B-0x0D; MBC3 for 0x0F-0x13; MBC5
\* for 0x19-0x1E; MBC6 for 0x20; MBC7 for 0x22; and to an invalid-cartridge-type error
\* for every other value.
C5_BankTypeTable ==
    (called = "get_memory_bank_type" /\ Len(content) > 327) =>
        LET b == At(content, 327) IN
        /\ b \in {0, 8, 9} => ret = Ok("ROM")
        /\ b \in 1..3      => ret = Ok("MBC1")
        /\ b \in {5, 6}    => ret = Ok("MBC2")
        /\ b \in 11..13    => ret = Ok("MMM01")
        /\ b \in 15..19    => ret = Ok("MBC3")
        /\ b \in 25..30    => ret = Ok("MBC5")
        /\ b = 32          => ret = Ok("MBC6")
        /\ b = 34          => ret = Ok("MBC7")
        /\ b \in {4, 7, 10, 14, 31, 33} \cup 20..24 \cup 35..255 =>
              /\ ret.kind = "Err"
              /\ ret.msg = "is an invalid value for the cartridge type."
              /\ ret.args = <<b>>
        /\ ret.kind \in {"Ok", "Err"}
        /\ ret.kind = "Ok" => ret.val \in MemoryBankType

C5_Witness ==
    /\ called = "get_memory_bank_type"
    /\ Len(content) > 327
    /\ At(content, 327) = 33
    /\ ret.kind = "Err"

\* C6: get_rom_size returns 32768 * 2^code for a code in 0x00..0x08 at 0x148, within
\* 32 bits, and an invalid-ROM-size error for every code from 0x09 to 0xFF.
C6_RomSizeTable ==
    (called = "get_rom_size" /\ Len(content) > 328) =>
        LET code == At(content, 328) IN
        IF code <= 8
            THEN /\ ret = Ok(32768 * 2^code)
                 /\ ret.val <= 8388608
                 /\ code = 0 => ret.val = 32768
                 /\ code = 8 => ret.val = 8388608
            ELSE /\ ret.kind = "Err"
                 /\ ret.msg = "is an invalid value for the ROM size."
                 /\ ret.args = <<code>>

C6_Witness ==
    /\ called = "get_rom_size"
    /\ Len(content) > 328
    /\ At(content, 328) = 8
    /\ ret.kind = "Ok"

\* C7: get_ram_size returns 0, 0, 8192, 32768, 131072, 65536 for the codes 0x00..0x05
\* at 0x149 and an invalid-RAM-size error for every code from 0x06 to 0xFF.
C7_RamSizeTable ==
    (called = "get_ram_size" /\ Len(content) > 329) =>
        LET code == At(content, 329) IN
        IF code <= 5
            THEN ret = Ok(<<0, 0, 8192, 32768, 131072, 65536>>[code + 1])
            ELSE /\ ret.kind = "Err"
                 /\ ret.msg = "is an invalid value for the RAM size."
                 /\ ret.args = <<code>>

C7_Witness ==
    /\ called = "get_ram_size"
    /\ Len(content) > 329
    /\ At(content, 329) = 5
    /\ ret.kind = "Ok"

\* C8: when the cartridge-type and RAM-size bytes both decode,
\* verify_memory_bank_matches_ram fails iff the type byte is 0x05 or 0x06 and the
\* RAM code is in 0x02..0x05, and succeeds otherwise.
C8_Mbc2RuleIff ==
    (/\ called = "verify_memory_bank_matches_ram"
     /\ Len(content) > 329
     /\ At(content, 327) \in ValidTypeBytes
     /\ At(content, 329) \in 0..5) =>
        /\ ret.kind \in {"Ok", "Err"}
        /\ (ret.kind = "Err") <=> (At(content, 327) \in {5, 6} /\ At(content, 329) \in 2..5)

C8_Witness ==
    /\ called = "verify_memory_bank_matches_ram"
    /\ Len(content) > 329
    /\ At(content, 327) = 6
    /\ At(content, 329) = 5
    /\ ret.kind = "Err"

\* offsets outside the logo: around it, the other header fields, the last byte
NearLogo(c) == {0, 1, 258, 259, 308, 309, 327, 328, 329, 332, 333, Len(c) - 1} \ 260..307

\* C9: on a buffer of at least 0x134 bytes verify_nintendo_logo succeeds iff the 48
\* bytes at 0x104..0x133 equal NINTENDO_LOGO position by position; changing one byte
\* of the range makes it fail, and bytes outside the range never change the result.
C9_LogoIffEqual ==
    (called = "verify_nintendo_logo" /\ Len(content) >= 308) =>
        /\ ret.kind \in {"Ok", "Err"}
        /\ (ret.kind = "Ok") <=> LogoMatches(content)
        /\ ret.kind = "Ok" =>
              \A o \in 260..307, d \in 1..MaxDelta :
                  verify_nintendo_logo(Poke(content, o, d)).kind = "Err"
        /\ \A o \in NearLogo(content), d \in 1..MaxDelta :
              (o >= 0 /\ o < Len(content)) => verify_nintendo_logo(Poke(content, o, d)) = ret

C9_Witness ==
    /\ called = "verify_nintendo_logo"
    /\ Len(content) >= 334
    /\ At(content, 0) = 255
    /\ At(content, 327) = 4
    /\ ret.kind = "Ok"

\* the checks of Rom::new in the order the specification gives
Order == <<"verify_nintendo_logo", "get_ram_size", "get_memory_bank_type", "mbc2_rule">>

CheckResult(i, c) ==
    CASE i = 1 -> verify_nintendo_logo(c)
      [] i = 2 -> get_ram_size(c)
      [] i = 3 -> get_memory_bank_type(c)
      [] i = 4 -> verify_memory_bank_matches_ram(c)

\* C10: Rom::new evaluates logo verification, RAM-size decode, cartridge-type decode
\* and the MBC2/RAM rule in this order; the error it returns is the error of the first
\* check that fails, and no later check is evaluated.
C10_FirstFailingCheckInOrder ==
    /\ evaluated = SubSeq(Order, 1, Len(evaluated))
    /\ (pc = "done" /\ result.kind = "Ok") => evaluated = Order
    /\ (pc = "done" /\ result.kind = "Err" /\ evaluated # <<>>) =>
          /\ \E i \in 1..4 :
                /\ \A j \in 1..(i - 1) : CheckResult(j, content).kind = "Ok"
                /\ CheckResult(i, content).kind = "Err"
                /\ result = CheckResult(i, content)
                /\ evaluated = SubSeq(Order, 1, i)
          /\ ~LogoMatches(content) =>
                (result.msg = "Nintendo logo not found in header." /\ Len(evaluated) = 1)
          /\ (LogoMatches(content) /\ At(content, 329) > 5) =>
                (result.msg = "is an invalid value for the RAM size." /\ Len(evaluated) = 2)

C10_Witness ==
    /\ pc = "done"
    /\ Len(content) >= 334
    /\ result.kind = "Err"
    /\ LogoMatches(content)
    /\ At(content, 329) > 5
    /\ At(content, 327) = 4
    /\ result.msg = "is an invalid value for the RAM size."

====
